---- MODULE Spec2Model ----
(***************************************************************************)
(* Model of QuestionExtractor (src/app.py): the whole-page extraction loop *)
(* extract_questions, the per-container pipeline _parse_question and the   *)
(* per-type extractors.                                                    *)
(*                                                                         *)
(* Text is a sequence of one-character strings, so that lower(), strip(),  *)
(* substring tests, prefix regexes, concatenation and sorting are computed *)
(* and not assumed.                                                        *)
(*                                                                         *)
(* Markup family.  A page is a sequence of containers <div class="que">.   *)
(* A container holds an optional <div class="qtext">TEXT</div> and one     *)
(* <div class="answer"> whose children are rows.  With layout "div" a row  *)
(* is  <div>TERM CONTROL TAIL</div> ; with layout "table" all rows are the *)
(* rows <tr><td>TERM</td><td>CONTROL TAIL</td></tr> of one table.          *)
(* CONTROL is <input type=radio|checkbox|text>, <select>, <textarea> or    *)
(* absent.  TAIL is one of                                                 *)
(*    "label" : <label for=F>TEXT</label> after the control,               *)
(*    "wrap"  : the control sits inside <label>CONTROL TEXT</label>,       *)
(*    "text"  : a bare text node TEXT after the control,                   *)
(*    "tag"   : an element without text (<br>) after the control,          *)
(*    "none"  : nothing.                                                   *)
(***************************************************************************)
EXTENDS Integers, Sequences, FiniteSets, TLC

----------------------------------------------------------------------------
(* Text primitives (Python str / re on the model's alphabet)               *)

\* the alphabet, in code-point order
Chars ==
  << " ", "(", ")", "-", ".", "/", ":",
     "0", "1", "2", "3", "4", "5", "6", "7", "8", "9",
     "A", "B", "C", "D", "E", "F", "G", "H", "I", "J", "K", "L", "M",
     "N", "O", "P", "Q", "R", "S", "T", "U", "V", "W", "X", "Y", "Z",
     "a", "b", "c", "d", "e", "f", "g", "h", "i", "j", "k", "l", "m",
     "n", "o", "p", "q", "r", "s", "t", "u", "v", "w", "x", "y", "z" >>

Digits == << "0", "1", "2", "3", "4", "5", "6", "7", "8", "9" >>

UpperChars ==
  << "A", "B", "C", "D", "E", "F", "G", "H", "I", "J", "K", "L", "M",
     "N", "O", "P", "Q", "R", "S", "T", "U", "V", "W", "X", "Y", "Z" >>

LowerChars ==
  << "a", "b", "c", "d", "e", "f", "g", "h", "i", "j", "k", "l", "m",
     "n", "o", "p", "q", "r", "s", "t", "u", "v", "w", "x", "y", "z" >>

Range(s) == { s[i] : i \in 1..Len(s) }

IndexOf(seq, x) == CHOOSE i \in 1..Len(seq) : seq[i] = x

\* ord(ch), up to the order it induces
OrdOf == [ ch \in Range(Chars) |-> IndexOf(Chars, ch) ]

Ord(ch) == OrdOf[ch]

DigitSet == Range(Digits)

AlnumSet == Range(Digits) \cup Range(UpperChars) \cup Range(LowerChars)

IsDigit(ch) == ch \in DigitSet

IsAlnum(ch) == ch \in AlnumSet

IsSpace(ch) == ch = " "

\* ch.lower()
LowerOf ==
  [ ch \in Range(Chars) |->
      IF ch \in Range(UpperChars) THEN LowerChars[IndexOf(UpperChars, ch)] ELSE ch ]

LowerChar(ch) == LowerOf[ch]

\* str.lower()
Lower(s) == [ i \in 1..Len(s) |-> LowerChar(s[i]) ]

\* s[k:]
Drop(s, k) == SubSeq(s, k + 1, Len(s))

\* number of leading characters of s that satisfy the test
RECURSIVE LeadSpaces(_)
LeadSpaces(s) ==
  IF s # << >> /\ IsSpace(Head(s)) THEN 1 + LeadSpaces(Tail(s)) ELSE 0

RECURSIVE LeadDigits(_)
LeadDigits(s) ==
  IF s # << >> /\ IsDigit(Head(s)) THEN 1 + LeadDigits(Tail(s)) ELSE 0

RECURSIVE TrailSpaces(_)
TrailSpaces(s) ==
  IF s # << >> /\ IsSpace(s[Len(s)])
  THEN 1 + TrailSpaces(SubSeq(s, 1, Len(s) - 1))
  ELSE 0

\* str.lstrip() / str.strip()
LStrip(s) == Drop(s, LeadSpaces(s))

Strip(s) ==
  LET t == LStrip(s) IN SubSeq(t, 1, Len(t) - TrailSpaces(t))

StartsWith(s, p) == Len(s) >= Len(p) /\ SubSeq(s, 1, Len(p)) = p

\* the positions at which sub occurs in s
Occurrences(s, sub) ==
  { i \in 1..(Len(s) - Len(sub) + 1) : SubSeq(s, i, i + Len(sub) - 1) = sub }

\* sub in s
Contains(s, sub) == sub = << >> \/ Occurrences(s, sub) # {}

Min(S) == CHOOSE x \in S : \A y \in S : x <= y

\* re.sub(PAT + '.*?$', '', s, flags=re.IGNORECASE): cut s at the first
\* case-insensitive occurrence of the literal (lower-case) pat
CutFrom(s, pat) ==
  LET occ == Occurrences(Lower(s), pat)
  IN  IF occ = {} THEN s ELSE SubSeq(s, 1, Min(occ) - 1)

\* re.sub(PAT, '', s, flags=re.IGNORECASE) for a literal (lower-case) pat
RECURSIVE RemoveAll(_, _)
RemoveAll(s, pat) ==
  LET occ == Occurrences(Lower(s), pat)
  IN  IF occ = {} THEN s
      ELSE SubSeq(s, 1, Min(occ) - 1)
             \o RemoveAll(Drop(s, Min(occ) + Len(pat) - 1), pat)

\* re.sub(r'\s+', ' ', s): every whitespace run becomes one space
RECURSIVE CollapseSpaces(_)
CollapseSpaces(s) ==
  IF s = << >> THEN << >>
  ELSE IF IsSpace(Head(s))
       THEN << " " >> \o CollapseSpaces(LStrip(s))
       ELSE << Head(s) >> \o CollapseSpaces(Tail(s))

\* re.sub(r'^\d+\.\s*', '', s)
SubOrdinal(s) ==
  LET d == LeadDigits(s)
  IN  IF d >= 1 /\ Len(s) > d /\ s[d + 1] = "."
      THEN LStrip(Drop(s, d + 1))
      ELSE s

\* re.sub(r'^[bullet\-]\s*', '', s); the bullet character is outside Chars
SubBullet(s) ==
  IF s # << >> /\ Head(s) = "-" THEN LStrip(Tail(s)) ELSE s

\* re.sub(r'^[a-zA-Z0-9]\.\s*', '', s)
SubAlnumDot(s) ==
  IF Len(s) >= 2 /\ IsAlnum(s[1]) /\ s[2] = "." THEN LStrip(Drop(s, 2)) ELSE s

\* re.sub(r'^\([a-zA-Z0-9]\)\s*', '', s)
SubParenAlnum(s) ==
  IF Len(s) >= 3 /\ s[1] = "(" /\ IsAlnum(s[2]) /\ s[3] = ")"
  THEN LStrip(Drop(s, 3))
  ELSE s

\* re.sub(r'^[a-zA-Z0-9]\)\s*', '', s)
SubAlnumParen(s) ==
  IF Len(s) >= 2 /\ IsAlnum(s[1]) /\ s[2] = ")" THEN LStrip(Drop(s, 2)) ELSE s

\* a < b in Python's string order (code points, shorter prefix first)
RECURSIVE StrLess(_, _)
StrLess(a, b) ==
  IF b = << >> THEN FALSE
  ELSE IF a = << >> THEN TRUE
  ELSE IF Head(a) = Head(b) THEN StrLess(Tail(a), Tail(b))
  ELSE Ord(Head(a)) < Ord(Head(b))

\* sorted(list(S)) for a set of strings
RECURSIVE Sorted(_)
Sorted(S) ==
  IF S = {} THEN << >>
  ELSE LET m == CHOOSE x \in S : \A y \in S \ {x} : StrLess(x, y)
       IN  << m >> \o Sorted(S \ {m})

\* str(n) for n >= 0
RECURSIVE IntToStr(_)
IntToStr(n) ==
  IF n < 10 THEN << Digits[n + 1] >>
  ELSE IntToStr(n \div 10) \o << Digits[(n % 10) + 1] >>

\* the list without repetitions, first occurrences kept in order
RECURSIVE Dedup(_)
Dedup(seq) ==
  IF seq = << >> THEN << >>
  ELSE LET front == Dedup(SubSeq(seq, 1, Len(seq) - 1))
           last  == seq[Len(seq)]
       IN  IF last \in Range(front) THEN front ELSE Append(front, last)

----------------------------------------------------------------------------
(* String literals of the source                                           *)

kwQuestion == << "q", "u", "e", "s", "t", "i", "o", "n" >>

kwNotYetAnswered == << "n", "o", "t", " ", "y", "e", "t", " ", "a", "n", "s", "w", "e", "r", "e", "d" >>

kwMarkedOutOf == << "m", "a", "r", "k", "e", "d", " ", "o", "u", "t", " ", "o", "f" >>

kwMarkeOutOf == << "m", "a", "r", "k", "e", " ", "o", "u", "t", " ", "o", "f" >>

kwFlagQuestion == << "f", "l", "a", "g", " ", "q", "u", "e", "s", "t", "i", "o", "n" >>

kwInstruction == << "i", "n", "s", "t", "r", "u", "c", "t", "i", "o", "n", ":" >>

kwInstructions == << "i", "n", "s", "t", "r", "u", "c", "t", "i", "o", "n", "s", ":" >>

kwSelectAll == << "s", "e", "l", "e", "c", "t", " ", "a", "l", "l" >>

kwBlank == << "b", "l", "a", "n", "k" >>

kwChoose == << "c", "h", "o", "o", "s", "e" >>

kwChooseCap == << "C", "h", "o", "o", "s", "e" >>

kwNone == << "n", "o", "n", "e" >>

kwNA == << "n", "/", "a" >>

kwTrue == << "t", "r", "u", "e" >>

kwFalse == << "f", "a", "l", "s", "e" >>

kwYes == << "y", "e", "s" >>

kwNo == << "n", "o" >>

kwCorrect == << "c", "o", "r", "r", "e", "c", "t" >>

kwIncorrect == << "i", "n", "c", "o", "r", "r", "e", "c", "t" >>

kwItem == << "I", "t", "e", "m", " " >>

kwBlankN == << "B", "l", "a", "n", "k", " " >>

\* the keyword list of _extract_select_choices
MatchingKeywords ==
  << << "m", "a", "t", "c", "h" >>,
     << "m", "a", "t", "c", "h", "i", "n", "g" >>,
     << "c", "o", "n", "n", "e", "c", "t" >>,
     << "p", "a", "i", "r" >>,
     << "c", "o", "r", "r", "e", "s", "p", "o", "n", "d" >> >>

\* the placeholder list of _extract_options_from_select
PlaceholderOptions ==
  << << "c", "h", "o", "o", "s", "e", ".", ".", "." >>,
     << "s", "e", "l", "e", "c", "t", ".", ".", "." >>,
     << "-", "-", "-" >>,
     << "p", "l", "e", "a", "s", "e", " ", "s", "e", "l", "e", "c", "t" >> >>

\* identification_keywords of _classify_text_input
IdentificationKeywords ==
  << << "i", "d", "e", "n", "t", "i", "f", "y" >>,
     << "w", "h", "o", " ", "i", "s" >>,
     << "w", "h", "a", "t", " ", "i", "s" >>,
     << "n", "a", "m", "e", " ", "t", "h", "e" >>,
     << "w", "h", "o", " ", "a", "r", "e" >>,
     << "w", "h", "a", "t", " ", "a", "r", "e" >>,
     << "g", "i", "v", "e", " ", "t", "h", "e", " ", "n", "a", "m", "e" >>,
     << "s", "t", "a", "t", "e", " ", "t", "h", "e", " ", "n", "a", "m", "e" >>,
     << "m", "e", "n", "t", "i", "o", "n", " ", "t", "h", "e", " ", "n", "a", "m", "e" >> >>

\* the labels _extract_checkbox_choices leaves out
IgnoredCheckboxLabels ==
  << << "f", "l", "a", "g", " ", "q", "u", "e", "s", "t", "i", "o", "n" >>,
     << "s", "e", "l", "e", "c", "t", " ", "a", "l", "l" >> >>

\* the entries _clean_choices drops
DroppedChoices ==
  << << >>,
     << "n", "o", "n", "e" >>,
     << "n", "/", "a" >> >>

----------------------------------------------------------------------------
(* QuestionExtractor: the pure parts                                       *)

\* self.question_types
question_types ==
  [ mcq |-> "Multiple Choice", tf |-> "True or False",
    cloze |-> "Fill in the Blank (Cloze)", matching |-> "Matching Type",
    checkbox |-> "Multiple Select", text |-> "Short Answer",
    essay |-> "Essay", identification |-> "Identification" ]

\* the threshold of  is_matching or num_selects <= 15
MatchingMaxSelects == 15

\* the tolerance of  len(items) >= num_selects - 2
MatchingTolerance == 2

\* Optional[str]
None == [ some |-> FALSE, text |-> << >> ]

Some(t) == [ some |-> TRUE, text |-> t ]

\* Python truthiness of an Optional[str]
Truthy(o) == o.some /\ o.text # << >>

\* any(keyword in text for keyword in keywords)
AnyKeywordIn(text, keywords) ==
  \E k \in 1..Len(keywords) : Contains(text, keywords[k])

\* the length of the match of r'Question\s+\d+\s*' (IGNORECASE) at the start
\* of s, 0 when it does not match there
MatchQuestionNumber(s) ==
  IF ~StartsWith(Lower(s), kwQuestion) THEN 0
  ELSE LET r1 == Drop(s, Len(kwQuestion))
           sp == LeadSpaces(r1)
           r2 == Drop(r1, sp)
           dg == LeadDigits(r2)
           r3 == Drop(r2, dg)
       IN  IF sp >= 1 /\ dg >= 1
           THEN Len(kwQuestion) + sp + dg + LeadSpaces(r3)
           ELSE 0

\* re.sub(r'Question\s+\d+\s*', '', s, flags=re.IGNORECASE)
RECURSIVE RemoveQuestionNumbers(_)
RemoveQuestionNumbers(s) ==
  IF s = << >> THEN << >>
  ELSE LET m == MatchQuestionNumber(s)
       IN  IF m > 0 THEN RemoveQuestionNumbers(Drop(s, m))
           ELSE << Head(s) >> \o RemoveQuestionNumbers(Tail(s))

\* re.sub(r'Marked? out of.*?$', '', s, flags=re.IGNORECASE)
CutMarkedOutOf(s) ==
  LET occ == Occurrences(Lower(s), kwMarkedOutOf)
               \cup Occurrences(Lower(s), kwMarkeOutOf)
  IN  IF occ = {} THEN s ELSE SubSeq(s, 1, Min(occ) - 1)

\* the Instructions: clause: found by re.search only when at least one
\* character follows the colon, and then cut to the end of the text
CutInstructions(s) ==
  LET occ  == Occurrences(Lower(s), kwInstruction)
                \cup Occurrences(Lower(s), kwInstructions)
      ends == { i + Len(kwInstruction) - 1 : i \in Occurrences(Lower(s), kwInstruction) }
                \cup { i + Len(kwInstructions) - 1 : i \in Occurrences(Lower(s), kwInstructions) }
  IN  IF \E e \in ends : e < Len(s)
      THEN Strip(SubSeq(s, 1, Min(occ) - 1))
      ELSE s

\* _extract_question_text
ExtractQuestionText(q_div) ==
  IF ~q_div.hasQText THEN << >>
  ELSE LET t0 == Strip(q_div.qtext)
           t1 == Strip(CollapseSpaces(t0))
           t2 == RemoveQuestionNumbers(t1)
           t3 == CutFrom(t2, kwNotYetAnswered)
           t4 == CutMarkedOutOf(t3)
           t5 == CutFrom(t4, kwFlagQuestion)
           t6 == CutInstructions(t5)
       IN  Strip(t6)

\* _find_answer_container: the family's containers carry <div class="answer">,
\* the first class tried; its children are the rows
FindAnswerContainer(q_div) == q_div.rows

\* every row of the page, in document order
RECURSIVE AllRows(_)
AllRows(page) ==
  IF page = << >> THEN << >>
  ELSE Head(page).rows \o AllRows(Tail(page))

\* soup.find('label', {'for': input_id}) followed by get_text(strip=True)
LabelFor(page, input_id) ==
  LET rows == AllRows(page)
      hits == { i \in 1..Len(rows) :
                  rows[i].tail = "label" /\ rows[i].for = input_id }
  IN  IF hits = {} THEN None ELSE Some(Strip(rows[Min(hits)].text))

\* _clean_label_text
CleanLabelText(text) ==
  IF text = << >> THEN << >>
  ELSE LET t1 == SubAlnumDot(text)
           t2 == SubParenAlnum(t1)
           t3 == SubAlnumParen(t2)
           t4 == Strip(t3)
           t5 == RemoveAll(t4, kwNotYetAnswered)
           t6 == CutFrom(t5, kwMarkedOutOf)
       IN  Strip(t6)

\* get_text(strip=True) of the row's nearest div/td ancestor, inputs removed:
\* the stripped text nodes, joined without separator
RowTextWithoutInputs(layout, row) ==
  (IF layout = "div" THEN Strip(row.term) ELSE << >>)
    \o (IF row.tail \in {"label", "wrap", "text"} THEN Strip(row.text) ELSE << >>)

\* _find_label_text, lines 181-184: the label whose for attribute is the id
FromForAttribute(page, row) ==
  IF row.id # "" THEN LabelFor(page, row.id) ELSE None

\* lines 186-192: the label the control is nested in
FromParentLabel(label_text, row) ==
  IF ~Truthy(label_text) /\ row.tail = "wrap"
  THEN Some(Strip(row.text))
  ELSE label_text

\* lines 194-199: a label inside the control's parent
FromSiblingLabel(label_text, row) ==
  IF ~Truthy(label_text) /\ row.tail = "label"
  THEN Some(Strip(row.text))
  ELSE label_text

\* lines 201-207: the text of the nearest div/span/td/li ancestor
FromAncestorText(label_text, layout, row) ==
  IF ~Truthy(label_text)
  THEN Some(RowTextWithoutInputs(layout, row))
  ELSE label_text

\* lines 209-217: the next sibling, then the cleaning.  An element as next
\* sibling answers hasattr(_, 'strip') with True and the attribute with None,
\* so next_sibling.strip() raises TypeError: st = "raise".  A text node as
\* next sibling is part of the ancestor text already and adds nothing here
FromNextSibling(label_text, row) ==
  IF ~Truthy(label_text) /\ row.tail \in {"label", "tag"}
  THEN [ st |-> "raise", text |-> << >> ]
  ELSE IF Truthy(label_text) /\ CleanLabelText(label_text.text) # << >>
  THEN [ st |-> "ok", text |-> CleanLabelText(label_text.text) ]
  ELSE [ st |-> "none", text |-> << >> ]

\* _find_label_text
FindLabelText(page, layout, row) ==
  FromNextSibling(
    FromAncestorText(
      FromSiblingLabel(
        FromParentLabel(FromForAttribute(page, row), row), row), layout, row), row)

\* the rows of the answer area that carry a control of the kind
RowsOfKind(rows, kind) == SelectSeq(rows, LAMBDA r : r.kind = kind)

\* one more control resolved: l its label, rest the outcome for the others
ConsLabel(l, rest) ==
  IF l.st = "raise" THEN [ raised |-> TRUE, labels |-> << >> ]
  ELSE [ raised |-> rest.raised,
         labels |-> IF l.st = "ok" THEN << l.text >> \o rest.labels
                    ELSE rest.labels ]

\* the labels found for the controls, in order; raised when a lookup raises
RECURSIVE ResolveLabels(_, _, _)
ResolveLabels(page, layout, controls) ==
  IF controls = << >> THEN [ raised |-> FALSE, labels |-> << >> ]
  ELSE ConsLabel(FindLabelText(page, layout, Head(controls)),
                 ResolveLabels(page, layout, Tail(controls)))

\* [c.lower() for c in choices], as the set the membership tests read
LowerSet(choices) == { Lower(choices[i]) : i \in 1..Len(choices) }

\* lines 166-170 with one word of a pair being enough
IsTrueFalseEither(choices, lower) ==
  /\ Len(choices) = 2
  /\ \/ kwTrue \in lower \/ kwFalse \in lower
     \/ kwYes \in lower \/ kwNo \in lower
     \/ kwCorrect \in lower \/ kwIncorrect \in lower

\* lines 166-170: two choices that are one of the true/false pairs
IsTrueFalse(choices, lower) ==
  /\ Len(choices) = 2
  /\ \/ kwTrue \in lower /\ kwFalse \in lower
     \/ kwYes \in lower /\ kwNo \in lower
     \/ kwCorrect \in lower /\ kwIncorrect \in lower

\* lines 164-174
ClassifyRadio(choices, question_data) ==
  [ question_data EXCEPT
      !.choices = choices,
      !.type = IF IsTrueFalse(choices, LowerSet(choices))
               THEN question_types.tf
               ELSE question_types.mcq ]

RadioResult(res, question_data) ==
  [ raised |-> res.raised,
    data   |-> ClassifyRadio(Dedup(res.labels), question_data) ]

\* _extract_radio_choices
ExtractRadioChoices(page, layout, radios, question_data) ==
  RadioResult(ResolveLabels(page, layout, radios), question_data)

\* _extract_options_from_select
ExtractOptionsFromSelect(select) ==
  LET keep(o) == /\ Strip(o.text) # << >>
                 /\ o.value # ""
                 /\ Lower(Strip(o.text)) \notin Range(PlaceholderOptions)
      kept == SelectSeq(select.opts, keep)
  IN  Dedup([ i \in 1..Len(kept) |-> Strip(kept[i].text) ])

\* the acceptance test shared by the second and third strategy of
\* _extract_matching_items
AcceptItem(text, choices, items) ==
  /\ text # << >>
  /\ text \notin Range(choices)
  /\ Len(text) > 1
  /\ ~StartsWith(Lower(text), kwChoose)
  /\ text \notin Range(items)

\* first strategy: the first cell of every table row
RECURSIVE TableItems(_, _)
TableItems(rows, choices) ==
  IF rows = << >> THEN << >>
  ELSE LET term == Strip(Head(rows).term)
           t2   == Strip(SubOrdinal(term))
           rest == TableItems(Tail(rows), choices)
       IN  IF term # << >> /\ term \notin Range(choices) /\ Len(term) > 1
              /\ t2 # << >>
           THEN << t2 >> \o rest
           ELSE rest

\* the text of a row's block with its selects and its 'Choose' labels removed
BlockText(row) ==
  Strip(row.term)
    \o (IF row.tail \in {"label", "wrap"}
        THEN (IF Contains(row.text, kwChooseCap) THEN << >> ELSE Strip(row.text))
        ELSE IF row.tail = "text" THEN Strip(row.text)
        ELSE << >>)

\* second strategy: the blocks (div, li, p) that hold a select
RECURSIVE BlockItems(_, _, _)
BlockItems(rows, choices, items) ==
  IF rows = << >> THEN items
  ELSE LET row  == Head(rows)
           text == Strip(SubBullet(SubOrdinal(BlockText(row))))
       IN  IF row.kind = "select" /\ AcceptItem(text, choices, items)
           THEN BlockItems(Tail(rows), choices, Append(items, text))
           ELSE BlockItems(Tail(rows), choices, items)

\* the text of the siblings that precede the select in its parent: the term
\* of a "div" row, nothing inside a table cell or a wrapping label
PrecedingText(layout, row) ==
  IF layout = "div" /\ row.tail # "wrap" THEN Strip(row.term) ELSE << >>

\* third strategy: the text before each select
RECURSIVE SiblingItems(_, _, _, _)
SiblingItems(layout, rows, choices, items) ==
  IF rows = << >> THEN items
  ELSE LET row  == Head(rows)
           text == SubBullet(SubOrdinal(Strip(PrecedingText(layout, row))))
       IN  IF row.kind = "select" /\ AcceptItem(text, choices, items)
           THEN SiblingItems(layout, Tail(rows), choices, Append(items, text))
           ELSE SiblingItems(layout, Tail(rows), choices, items)

\* if not items: the next strategy
OrElse(items, next) == IF items = << >> THEN next ELSE items

\* _extract_matching_items
ExtractMatchingItems(layout, answer_div, choices) ==
  OrElse(
    OrElse(IF layout = "table" THEN TableItems(answer_div, choices) ELSE << >>,
           IF layout = "div" THEN BlockItems(answer_div, choices, << >>) ELSE << >>),
    SiblingItems(layout, answer_div, choices, << >>))

\* [f"{prefix}{i+1}" for i in range(n)]
Numbered(prefix, n) == [ i \in 1..n |-> prefix \o IntToStr(i) ]

\* list(a_set): the elements in the iteration order of the set, which the
\* process's string hashing (seeded per interpreter start) decides; the seed
\* is the order it induces on the strings
ListOfSet(seed, S) == SelectSeq(seed, LAMBDA x : x \in S)

\* lines 260-263 with the option lists compared, not their sets
AllSameLists(selects, first_options) ==
  \A k \in 2..Len(selects) :
     ExtractOptionsFromSelect(selects[k]) = ExtractOptionsFromSelect(selects[1])

\* all(set(options of s) == first_options for s in selects[1:])
AllSame(selects, first_options) ==
  \A k \in 2..Len(selects) :
     Range(ExtractOptionsFromSelect(selects[k])) = first_options

\* the union of the cleaned options of all selects
AllOptions(selects) ==
  UNION { Range(ExtractOptionsFromSelect(selects[k])) : k \in 1..Len(selects) }

\* lines 258-280, reached when the first Matching test did not return
SharedOrCloze(seed, layout, selects, answer_div, question_data, first_options) ==
  IF Len(selects) > 1 /\ AllSame(selects, first_options)
  THEN [ question_data EXCEPT
           !.type = question_types.matching,
           !.choices = ListOfSet(seed, first_options),
           !.blanks = OrElse(ExtractMatchingItems(layout, answer_div,
                                                  ListOfSet(seed, first_options)),
                             Numbered(kwItem, Len(selects))) ]
  ELSE [ question_data EXCEPT
           !.type = question_types.cloze,
           !.blanks = Numbered(kwBlankN, Len(selects)),
           !.choices = Sorted(AllOptions(selects)) ]

\* lines 247-256 with only one missing item tolerated
MatchingOrRestStrict(seed, layout, selects, answer_div, question_data, choices, items) ==
  IF /\ \/ AnyKeywordIn(Lower(question_data.question_text), MatchingKeywords)
        \/ Len(selects) <= MatchingMaxSelects
     /\ items # << >>
     /\ Len(items) >= Len(selects) - (MatchingTolerance - 1)
  THEN [ question_data EXCEPT !.type = question_types.matching,
                              !.choices = choices,
                              !.blanks = items ]
  ELSE SharedOrCloze(seed, layout, selects, answer_div, question_data,
                     Range(choices))

\* lines 247-256, with choices and items of the first select at hand
MatchingOrRest(seed, layout, selects, answer_div, question_data, choices, items) ==
  IF /\ \/ AnyKeywordIn(Lower(question_data.question_text), MatchingKeywords)
        \/ Len(selects) <= MatchingMaxSelects
     /\ items # << >>
     /\ Len(items) >= Len(selects) - MatchingTolerance
  THEN [ question_data EXCEPT !.type = question_types.matching,
                              !.choices = choices,
                              !.blanks = items ]
  ELSE SharedOrCloze(seed, layout, selects, answer_div, question_data,
                     Range(choices))

\* _extract_select_choices
ExtractSelectChoices(seed, layout, selects, answer_div, question_data) ==
  IF Len(selects) = 1
  THEN [ question_data EXCEPT
           !.type = "Dropdown Select",
           !.choices = ExtractOptionsFromSelect(selects[1]) ]
  ELSE MatchingOrRest(seed, layout, selects, answer_div, question_data,
         ExtractOptionsFromSelect(selects[1]),
         ExtractMatchingItems(layout, answer_div,
                              ExtractOptionsFromSelect(selects[1])))

\* lines 386-391: the blank variant counts the distinct control names
CheckboxKind(checkboxes, question_data) ==
  IF Contains(Lower(question_data.question_text), kwBlank)
  THEN [ question_data EXCEPT
           !.blanks = Numbered(kwBlankN,
                        Cardinality({ checkboxes[i].name :
                                        i \in 1..Len(checkboxes) } \ {""})),
           !.type = "Fill in the Blank (Checkbox)" ]
  ELSE [ question_data EXCEPT !.type = question_types.checkbox ]

\* lines 393-401
CheckboxResult(res, question_data) ==
  [ raised |-> res.raised,
    data   |-> [ question_data EXCEPT
                   !.choices =
                      SelectSeq(Dedup(res.labels),
                                LAMBDA l : Lower(l) \notin Range(IgnoredCheckboxLabels)) ] ]

\* _extract_checkbox_choices
ExtractCheckboxChoices(page, layout, checkboxes, question_data) ==
  CheckboxResult(ResolveLabels(page, layout, checkboxes),
                 CheckboxKind(checkboxes, question_data))

\* _classify_text_input that also writes a blank placeholder
ClassifyTextInputWithBlank(question_data) ==
  IF AnyKeywordIn(Lower(question_data.question_text), IdentificationKeywords)
  THEN [ question_data EXCEPT !.type = question_types.identification,
                              !.blanks = Numbered(kwBlankN, 1) ]
  ELSE [ question_data EXCEPT !.type = question_types.text,
                              !.blanks = Numbered(kwBlankN, 1) ]

\* _classify_text_input
ClassifyTextInput(question_data) ==
  IF AnyKeywordIn(Lower(question_data.question_text), IdentificationKeywords)
  THEN [ question_data EXCEPT !.type = question_types.identification ]
  ELSE [ question_data EXCEPT !.type = question_types.text ]

\* _clean_choices without the none / n/a test
RECURSIVE CleanChoicesKeepNone(_)
CleanChoicesKeepNone(choices) ==
  IF choices = << >> THEN << >>
  ELSE LET cleaned == CleanChoicesKeepNone(SubSeq(choices, 1, Len(choices) - 1))
           choice  == Strip(choices[Len(choices)])
       IN  IF Len(choice) < 1 THEN cleaned
           ELSE IF choice \in Range(cleaned) THEN cleaned
           ELSE Append(cleaned, choice)

\* _clean_choices
RECURSIVE CleanChoices(_)
CleanChoices(choices) ==
  IF choices = << >> THEN << >>
  ELSE LET cleaned == CleanChoices(SubSeq(choices, 1, Len(choices) - 1))
           choice  == Strip(choices[Len(choices)])
       IN  IF Len(choice) < 1 THEN cleaned
           ELSE IF Lower(choice) \in Range(DroppedChoices) THEN cleaned
           ELSE IF choice \in Range(cleaned) THEN cleaned
           ELSE Append(cleaned, choice)

\* the outcome of a handler, with the branch that ran it
Handled(r, handler) ==
  [ raised |-> r.raised, data |-> r.data, handler |-> handler ]

Plain(data, handler) ==
  [ raised |-> FALSE, data |-> data, handler |-> handler ]

\* _detect_and_extract with the checkbox test moved before the select test
DetectCheckboxFirst(page, seed, layout, answer_div, question_data) ==
  IF RowsOfKind(answer_div, "radio") # << >>
  THEN Handled(ExtractRadioChoices(page, layout, RowsOfKind(answer_div, "radio"),
                                   question_data), "radio")
  ELSE IF RowsOfKind(answer_div, "checkbox") # << >>
  THEN Handled(ExtractCheckboxChoices(page, layout,
                                      RowsOfKind(answer_div, "checkbox"),
                                      question_data), "checkbox")
  ELSE IF RowsOfKind(answer_div, "select") # << >>
  THEN Plain(ExtractSelectChoices(seed, layout, RowsOfKind(answer_div, "select"),
                                  answer_div, question_data), "select")
  ELSE IF RowsOfKind(answer_div, "text") # << >>
  THEN Plain(ClassifyTextInput(question_data), "text")
  ELSE IF RowsOfKind(answer_div, "textarea") # << >>
  THEN Plain([ question_data EXCEPT !.type = question_types.essay ], "textarea")
  ELSE Plain(question_data, "none")

\* _detect_and_extract: the first kind of control found in the answer area
\* decides the handler
DetectAndExtract(page, seed, layout, answer_div, question_data) ==
  IF RowsOfKind(answer_div, "radio") # << >>
  THEN Handled(ExtractRadioChoices(page, layout, RowsOfKind(answer_div, "radio"),
                                   question_data), "radio")
  ELSE IF RowsOfKind(answer_div, "select") # << >>
  THEN Plain(ExtractSelectChoices(seed, layout, RowsOfKind(answer_div, "select"),
                                  answer_div, question_data), "select")
  ELSE IF RowsOfKind(answer_div, "checkbox") # << >>
  THEN Handled(ExtractCheckboxChoices(page, layout,
                                      RowsOfKind(answer_div, "checkbox"),
                                      question_data), "checkbox")
  ELSE IF RowsOfKind(answer_div, "text") # << >>
  THEN Plain(ClassifyTextInput(question_data), "text")
  ELSE IF RowsOfKind(answer_div, "textarea") # << >>
  THEN Plain([ question_data EXCEPT !.type = question_types.essay ], "textarea")
  ELSE Plain(question_data, "none")

\* the record _parse_question starts from
NewQuestionData(number) ==
  [ number |-> number, type |-> "Unknown", question_text |-> << >>,
    choices |-> << >>, blanks |-> << >>, metadata |-> << >> ]

----------------------------------------------------------------------------
(* The pages the extraction is run on                                      *)

tTrue == << "T", "r", "u", "e" >>

tFALSE == << "F", "A", "L", "S", "E" >>

tYes == << "Y", "e", "s" >>

tNo == << "n", "o" >>

tRome == << "B", ")", " ", "R", "o", "m", "e" >>

tFoo == << "F", "o", "o" >>

tRed == << "R", "e", "d" >>

tSelectAll == << "S", "e", "l", "e", "c", "t", " ", "a", "l", "l" >>

tNA == << "N", "/", "A" >>

tDog == << "1", ".", " ", "D", "o", "g" >>

tCat == << "C", "a", "t" >>

tX == << "X" >>

tY == << "Y" >>

tNone == << "N", "o", "n", "e" >>

tChoose == << "C", "h", "o", "o", "s", "e", ".", ".", "." >>

qPlain == << "P", "i", "c", "k", " ", "o", "n", "e" >>

qMatch == << "M", "a", "t", "c", "h", " ", "t", "h", "e", " ", "p", "a", "i", "r", "s" >>

qBlank == << "F", "i", "l", "l", " ", "i", "n", " ", "t", "h", "e", " ", "b", "l", "a", "n", "k" >>

qIdentify == << "I", "d", "e", "n", "t", "i", "f", "y", " ", "i", "t" >>

qNoisy == << "Q", "u", "e", "s", "t", "i", "o", "n", " ", "1", " ", " ", "P", "i", "c", "k", " ", "N", "o", "t", " ", "y", "e", "t", " ", "a", "n", "s", "w", "e", "r", "e", "d" >>

\* most rows of a container of the one-container pages
MaxRows == 2

\* most containers of a page of the several-container pages
MaxContainers == 3

Row(kind, id, name, term, tail, for, text, opts) ==
  [ kind |-> kind, id |-> id, name |-> name, term |-> term, tail |-> tail,
    for |-> for, text |-> text, opts |-> opts ]

Option(text, value) == [ text |-> text, value |-> value ]

\* <input type=radio id=a><label for=a>True</label>
rTrue == Row("radio", "a", "q", << >>, "label", "a", tTrue, << >>)

\* <label><input type=radio>FALSE</label>
rFalse == Row("radio", "", "q", << >>, "wrap", "", tFALSE, << >>)

\* <input type=radio id=b><label for=c>Yes</label>
rYes == Row("radio", "b", "q", << >>, "label", "c", tYes, << >>)

\* <input type=radio>no
rNo == Row("radio", "", "q", << >>, "text", "", tNo, << >>)

\* <input type=radio><label>B) Rome</label>
rRome == Row("radio", "", "q", << >>, "label", "", tRome, << >>)

\* <label><input type=radio>None</label>
rNone == Row("radio", "", "q", << >>, "wrap", "", tNone, << >>)

\* <input type=radio>
rBare == Row("radio", "", "q", << >>, "none", "", << >>, << >>)

\* <input type=radio><br>
rBr == Row("radio", "", "q", << >>, "tag", "", << >>, << >>)

\* <label><input type=checkbox name=n1>Red</label>
cRed == Row("checkbox", "", "n1", << >>, "wrap", "", tRed, << >>)

\* <input type=checkbox name=n2>Select all
cAll == Row("checkbox", "", "n2", << >>, "text", "", tSelectAll, << >>)

\* <input type=checkbox><label>N/A</label>
cNA == Row("checkbox", "", "", << >>, "label", "", tNA, << >>)

\* 1. Dog <select><option value="">Choose...<option value=1>X<option value=2>Y
sDog == Row("select", "", "s1", tDog, "none", "", << >>,
            << Option(tChoose, ""), Option(tX, "1"), Option(tY, "2") >>)

\* Cat <select><option value=1>Y<option value=2>X<option value=3>X
sCat == Row("select", "", "s2", tCat, "none", "", << >>,
            << Option(tY, "1"), Option(tX, "2"), Option(tX, "3") >>)

\* <select><option value=1>X<option value=2>Y
sBare == Row("select", "", "s3", << >>, "none", "", << >>,
             << Option(tX, "1"), Option(tY, "2") >>)

\* X <select><option value=1>X<option value="">Y
sOdd == Row("select", "", "s4", tX, "none", "", << >>,
            << Option(tX, "1"), Option(tY, "") >>)

\* <select><option value=1>Y<option value=2>X
sRev == Row("select", "", "s5", << >>, "none", "", << >>,
            << Option(tY, "1"), Option(tX, "2") >>)

\* <input type=text>
tInput == Row("text", "", "t", << >>, "none", "", << >>, << >>)

\* <textarea></textarea>
tArea == Row("textarea", "", "e", << >>, "none", "", << >>, << >>)

\* <label for=a>Foo</label> with no control
lFoo == Row("none", "", "", << >>, "label", "a", tFoo, << >>)

Rows ==
  { rTrue, rFalse, rYes, rNo, rRome, rNone, rBare, rBr, cRed, cAll, cNA,
    sDog, sCat, sBare, sOdd, tInput, tArea }

Container(hasQText, qtext, layout, rows) ==
  [ hasQText |-> hasQText, qtext |-> qtext, layout |-> layout, rows |-> rows ]

\* the sequences over S of length at most n
SeqsUpTo(S, n) == UNION { [ 1..k -> S ] : k \in 0..n }

HasKind(rows, kind) == \E i \in 1..Len(rows) : rows[i].kind = kind

\* the question texts that can make a difference to the rows
QTextsFor(rows) ==
  { qPlain }
    \cup (IF rows = << >> THEN { qNoisy } ELSE {})
    \cup (IF HasKind(rows, "select") THEN { qMatch } ELSE {})
    \cup (IF HasKind(rows, "checkbox") THEN { qBlank } ELSE {})
    \cup (IF HasKind(rows, "text") THEN { qIdentify } ELSE {})

\* the layouts of the rows: blocks, or a table when every row is a select
LayoutsFor(rows) ==
  { "div" }
    \cup (IF rows # << >> /\ \A i \in 1..Len(rows) : rows[i].kind = "select"
          THEN { "table" } ELSE {})

\* containers of at most MaxRows rows
UnitContainers ==
  UNION { { Container(TRUE, q, l, rows) : q \in QTextsFor(rows), l \in LayoutsFor(rows) } :
          rows \in SeqsUpTo(Rows, MaxRows) }

\* n selects of which the first k carry the term Cat, the last one with
\* other options when odd
ManySelects(n, k, odd) ==
  [ i \in 1..n |->
      IF i = n /\ odd THEN [ sOdd EXCEPT !.term = << >> ]
      ELSE IF i <= k THEN [ sBare EXCEPT !.term = tCat ]
      ELSE sBare ]

\* containers around the thresholds of _extract_select_choices
ManySelectContainers ==
  { Container(TRUE, q, l, ManySelects(n, k, odd)) :
      q \in { qPlain, qMatch }, l \in { "div", "table" },
      n \in { MatchingTolerance + 2, MatchingMaxSelects + 1 },
      k \in { 0, 1, 2, 3 }, odd \in BOOLEAN }

\* the containers the several-container pages are made of
SmallContainers ==
  { Container(TRUE, qPlain, "div", << rTrue, rFalse >>),
    Container(TRUE, qPlain, "div", << lFoo >>),
    Container(FALSE, << >>, "div", << rNo >>),
    Container(TRUE, qPlain, "div", << rBr >>),
    Container(TRUE, qPlain, "div", << sBare, sRev >>) }

Pages ==
  { << c >> : c \in UnitContainers \cup ManySelectContainers }
    \cup SeqsUpTo(SmallContainers, MaxContainers)

\* the texts a select of the pages can offer after cleaning
OptionTexts == { tX, tY }

\* the iteration orders string hashing can give the sets of option texts
HashSeeds ==
  { s \in [ 1..Cardinality(OptionTexts) -> OptionTexts ] : Range(s) = OptionTexts }

----------------------------------------------------------------------------
(* extract_questions as a state machine                                    *)

VARIABLES
  page,           \* the markup handed to extract_questions
  hashSeed,       \* the string-hash order of the running interpreter
  call,           \* 1 during the first call on the page, 2 during the second
  firstResult,    \* what the first call returned
  pc,             \* the position in extract_questions / _parse_question
  idx,            \* the loop index of extract_questions
  question_data,  \* the record _parse_question is building
  handler,        \* the branch _detect_and_extract took for question_data
  questions,      \* the result list
  errors          \* the container numbers logged by logger.error

vars ==
  << page, hashSeed, call, firstResult, pc, idx, question_data, handler,
     questions, errors >>

NoData == NewQuestionData(0)

Init ==
  /\ page \in Pages
  /\ hashSeed \in HashSeeds
  /\ call = 1
  /\ firstResult = << >>
  /\ pc = "start"
  /\ idx = 0
  /\ question_data = NoData
  /\ handler = "none"
  /\ questions = << >>
  /\ errors = << >>

\* lines 43-50: find the containers; none found returns []
FindContainers ==
  /\ pc = "start"
  /\ questions' = << >>
  /\ idx' = 1
  /\ pc' = IF page = << >> THEN "done" ELSE "loop"
  /\ UNCHANGED << page, hashSeed, call, firstResult, question_data, handler, errors >>

\* lines 52-54, 68-77: the next container; a fresh record with its text
ParseQuestionText ==
  /\ pc = "loop"
  /\ idx <= Len(page)
  /\ question_data' = [ NewQuestionData(idx) EXCEPT
                          !.question_text = ExtractQuestionText(page[idx]) ]
  /\ handler' = "none"
  /\ pc' = "detect"
  /\ UNCHANGED << page, hashSeed, call, firstResult, idx, questions, errors >>

\* the outcome r of _detect_and_extract: a raise leaves the try block
AfterDetect(r) ==
  IF r.raised
  THEN /\ pc' = "except"
       /\ UNCHANGED << question_data, handler >>
  ELSE /\ pc' = "clean"
       /\ question_data' = r.data
       /\ handler' = r.handler

\* lines 78-84: the answer area and _detect_and_extract, which may raise
DetectStep ==
  /\ pc = "detect"
  /\ AfterDetect(DetectAndExtract(page, hashSeed, page[idx].layout,
                                  FindAnswerContainer(page[idx]), question_data))
  /\ UNCHANGED << page, hashSeed, call, firstResult, idx, questions, errors >>

\* line 85: the final normalizer
CleanStep ==
  /\ pc = "clean"
  /\ question_data' = [ question_data EXCEPT !.choices = CleanChoices(@) ]
  /\ pc' = "append"
  /\ UNCHANGED << page, hashSeed, call, firstResult, idx, handler, questions, errors >>

\* line 55 without the question_text test
KeepAlways(data) == TRUE

\* line 55: question_data and question_data.get('question_text')
KeepRecord(data) == data.question_text # << >>

\* lines 55-56: keep the record when it has a question text
AppendStep ==
  /\ pc = "append"
  /\ questions' = IF KeepRecord(question_data)
                  THEN Append(questions, question_data)
                  ELSE questions
  /\ idx' = idx + 1
  /\ pc' = "loop"
  /\ UNCHANGED << page, hashSeed, call, firstResult, question_data, handler, errors >>

\* an except clause that leaves the loop
BreakOnException == "done"

\* where the except clause of the loop resumes
AfterException == "loop"

\* lines 57-59: log the failure and go on with the next container
HandleException ==
  /\ pc = "except"
  /\ errors' = Append(errors, idx)
  /\ idx' = idx + 1
  /\ pc' = AfterException
  /\ UNCHANGED << page, hashSeed, call, firstResult, question_data, handler, questions >>

\* lines 61-64: the loop is over
ReturnQuestions ==
  /\ pc = "loop"
  /\ idx > Len(page)
  /\ pc' = "done"
  /\ UNCHANGED << page, hashSeed, call, firstResult, idx, question_data, handler,
                  questions, errors >>

\* the caller runs extract_questions on the same markup once more, in the
\* same interpreter
CallAgain ==
  /\ pc = "done"
  /\ call = 1
  /\ call' = 2
  /\ firstResult' = questions
  /\ pc' = "start"
  /\ idx' = 0
  /\ question_data' = NoData
  /\ handler' = "none"
  /\ questions' = << >>
  /\ errors' = << >>
  /\ UNCHANGED << page, hashSeed >>

\* the same, after the interpreter was started anew: string hashing is
\* seeded per start
RestartAndCallAgain ==
  /\ pc = "done"
  /\ call = 1
  /\ call' = 2
  /\ hashSeed' \in HashSeeds
  /\ firstResult' = questions
  /\ pc' = "start"
  /\ idx' = 0
  /\ question_data' = NoData
  /\ handler' = "none"
  /\ questions' = << >>
  /\ errors' = << >>
  /\ UNCHANGED page

Next ==
  \/ FindContainers
  \/ ParseQuestionText
  \/ DetectStep
  \/ CleanStep
  \/ AppendStep
  \/ HandleException
  \/ ReturnQuestions
  \/ CallAgain
  \/ RestartAndCallAgain

Spec == Init /\ [][Next]_vars

----------------------------------------------------------------------------
(* Properties                                                              *)

\* the kinds of control in the order _detect_and_extract looks for them
Priority == << "radio", "select", "checkbox", "text", "textarea" >>

PresentKinds(rows) == { k \in 1..Len(Priority) : HasKind(rows, Priority[k]) }

\* the first kind of the priority list with a control in the rows
FirstPresent(rows) ==
  IF PresentKinds(rows) = {} THEN "none" ELSE Priority[Min(PresentKinds(rows))]

\* the rows with the controls of every kind after the first present one
\* taken out of the markup (their labels and texts stay)
WithoutLowerControls(rows) ==
  [ i \in 1..Len(rows) |->
      IF rows[i].kind \notin { "none", FirstPresent(rows) }
      THEN [ rows[i] EXCEPT !.kind = "none" ]
      ELSE rows[i] ]

\* the record as _parse_question hands it to _detect_and_extract
BeforeDetect(number, text) ==
  [ NewQuestionData(number) EXCEPT !.question_text = text ]

NoDuplicates(seq) == \A i, j \in 1..Len(seq) : seq[i] = seq[j] => i = j

\* the position of the first occurrence of x in seq
FirstIndex(seq, x) == Min({ i \in 1..Len(seq) : seq[i] = x })

\* seq lists, without repetition, exactly the members of from that satisfy
\* Keep, in the order of their first occurrence in from
FirstSeenOrder(seq, from, Keep(_)) ==
  /\ NoDuplicates(seq)
  /\ Range(seq) = { x \in Range(from) : Keep(x) }
  /\ \A i, j \in 1..Len(seq) :
        i < j => FirstIndex(from, seq[i]) < FirstIndex(from, seq[j])

Detected(p, seed, n) ==
  DetectAndExtract(p, seed, p[n].layout, FindAnswerContainer(p[n]),
                   BeforeDetect(n, ExtractQuestionText(p[n])))

Stripped(seq) == [ i \in 1..Len(seq) |-> Strip(seq[i]) ]

\* an entry the final choices may hold
ValidChoice(c) == c # << >> /\ Lower(c) \notin { kwNone, kwNA }

\* C2: in every returned record the choices hold no empty entry, no entry
\* that is none or n/a in lower case and no entry twice, and they are the
\* surviving entries of the extracted list in first-seen order
C2_ChoicesNormalized ==
  pc = "done" =>
    \A i \in 1..Len(questions) :
      /\ NoDuplicates(questions[i].choices)
      /\ \A k \in 1..Len(questions[i].choices) : ValidChoice(questions[i].choices[k])
      /\ FirstSeenOrder(questions[i].choices,
                        Stripped(Detected(page, hashSeed, questions[i].number).data.choices),
                        ValidChoice)

\* a returned record that lost an extracted choice to the normalizer
C2_Witness ==
  /\ pc = "done"
  /\ \E i \in 1..Len(questions) :
       /\ questions[i].choices # << >>
       /\ Len(questions[i].choices)
            < Len(Detected(page, hashSeed, questions[i].number).data.choices)

\* C3: the result holds at most one record per container, only records with
\* a question text, in document order, each numbered with the position of
\* its container; without containers it is empty
C3_ResultShape ==
  /\ Len(questions) <= Len(page)
  /\ page = << >> => questions = << >>
  /\ \A i \in 1..Len(questions) :
       /\ questions[i].number \in 1..Len(page)
       /\ questions[i].question_text # << >>
       /\ questions[i].question_text = ExtractQuestionText(page[questions[i].number])
  /\ \A i, j \in 1..Len(questions) :
       i < j => questions[i].number < questions[j].number

\* a result that skips a container: its numbers are not consecutive
C3_Witness ==
  /\ pc = "done"
  /\ Len(questions) = 2
  /\ questions[1].number = 1
  /\ questions[2].number = 3
  /\ errors = << >>

\* the page with every element that makes a label lookup raise taken out
Repaired(p) ==
  [ n \in 1..Len(p) |->
      [ p[n] EXCEPT !.rows =
          [ i \in 1..Len(p[n].rows) |->
              IF p[n].rows[i].tail = "tag"
              THEN [ p[n].rows[i] EXCEPT !.tail = "none" ]
              ELSE p[n].rows[i] ] ] ]

\* the records of the containers 1..n of p that do not raise on p, each as
\* the page q gives it
RECURSIVE RecordsOfOthers(_, _, _, _)
RecordsOfOthers(p, q, seed, n) ==
  IF n = 0 THEN << >>
  ELSE RecordsOfOthers(p, q, seed, n - 1)
         \o (IF ~Detected(p, seed, n).raised /\ ExtractQuestionText(p[n]) # << >>
             THEN << [ Detected(q, seed, n).data EXCEPT !.choices = CleanChoices(@) ] >>
             ELSE << >>)

\* the containers of p that raise
Raising(p, seed) == { n \in 1..Len(p) : Detected(p, seed, n).raised }

\* C4: extract_questions ends in its return whatever raises inside a
\* container; a container that raises gives no record and is logged, and
\* every other container gives the record it gives on the page where
\* nothing raises
C4_FailureIsolated ==
  /\ pc \in { "start", "loop", "detect", "clean", "append", "except", "done" }
  /\ pc = "done" =>
       /\ questions = RecordsOfOthers(page, Repaired(page), hashSeed, Len(page))
       /\ Range(errors) = Raising(page, hashSeed)
       /\ \A i \in 1..Len(questions) : questions[i].number \notin Range(errors)

\* a container raised between two that gave their records
C4_Witness ==
  /\ pc = "done"
  /\ errors = << 2 >>
  /\ Len(questions) = 2
  /\ questions[1].number = 1
  /\ questions[2].number = 3

\* the page with the answer areas of all containers but the n-th emptied
Alone(p, n) ==
  [ m \in 1..Len(p) |-> IF m = n THEN p[m] ELSE [ p[m] EXCEPT !.rows = << >> ] ]

\* C5: the record of a container is the record the same container gives at
\* the same position of a page whose other containers hold other markup
C5_ContainerIndependence ==
  pc = "done" =>
    \A i \in 1..Len(questions) :
      questions[i] =
        [ Detected(Alone(page, questions[i].number), hashSeed,
                   questions[i].number).data EXCEPT !.choices = CleanChoices(@) ]

\* the selects of the container being parsed
CurrentSelects == RowsOfKind(FindAnswerContainer(page[idx]), "select")

\* the item terms _extract_matching_items finds for the options of the
\* first select of the container being parsed
CurrentItems ==
  ExtractMatchingItems(page[idx].layout, FindAnswerContainer(page[idx]),
                       ExtractOptionsFromSelect(CurrentSelects[1]))

\* the first Matching test of _extract_select_choices applies, whatever the
\* number of items is
MatchingCandidate ==
  /\ pc = "clean"
  /\ handler = "select"
  /\ Len(CurrentSelects) > 1
  /\ \/ AnyKeywordIn(Lower(question_data.question_text), MatchingKeywords)
     \/ Len(CurrentSelects) <= 15
  /\ Len(CurrentItems) >= Len(CurrentSelects) - 2

MatchingOfFirstSelect ==
  /\ question_data.type = question_types.matching
  /\ question_data.choices = ExtractOptionsFromSelect(CurrentSelects[1])
  /\ question_data.blanks = CurrentItems

\* C6 as stated: with N > 1 selects, a matching keyword or N <= 15, and at
\* least N - 2 items (N = 2 with no item included), the record is Matching
\* with the options of the first select and the items
C6_MatchingWithinTolerance == MatchingCandidate => MatchingOfFirstSelect

\* C6: with N > 1 selects, a matching keyword or N <= 15, and at least one
\* and at least N - 2 items, the record is Matching with the options of the
\* first select as choices and the items as blanks
C6_MatchingWithItems ==
  (MatchingCandidate /\ CurrentItems # << >>) => MatchingOfFirstSelect

\* four selects with two items: Matching by the tolerance of two
C6_Witness ==
  /\ MatchingCandidate
  /\ Len(CurrentSelects) = 4
  /\ Len(CurrentItems) = 2
  /\ MatchingOfFirstSelect

\* C7: a returned record whose type is neither Cloze nor Matching has no
\* blanks
C7_BlanksOnlyClozeMatching ==
  \A i \in 1..Len(questions) :
    questions[i].type \notin { question_types.cloze, question_types.matching }
      => questions[i].blanks = << >>

\* C8: a second run of extract_questions on the same markup returns what
\* the first run returned
C8_Idempotent ==
  (pc = "done" /\ call = 2) => questions = firstResult

\* the radios of the container being parsed and the labels found for them
CurrentRadioLabels ==
  ResolveLabels(page, page[idx].layout,
                RowsOfKind(FindAnswerContainer(page[idx]), "radio")).labels

TrueFalsePairs ==
  { { kwTrue, kwFalse }, { kwYes, kwNo }, { kwCorrect, kwIncorrect } }

\* C9: after radio extraction the choices are the distinct labels in
\* first-seen order, and the type is True or False exactly when there are
\* two of them and their lower-case forms are one of the three pairs;
\* otherwise it is Multiple Choice
C9_RadioTrueFalse ==
  (pc = "clean" /\ handler = "radio") =>
    /\ FirstSeenOrder(question_data.choices, CurrentRadioLabels, LAMBDA x : TRUE)
    /\ question_data.type \in { question_types.tf, question_types.mcq }
    /\ question_data.type = question_types.tf
         <=> /\ Len(question_data.choices) = 2
             /\ LowerSet(question_data.choices) \in TrueFalsePairs

\* Scenario A: radios labelled True and FALSE
C9_Witness ==
  /\ pc = "clean"
  /\ handler = "radio"
  /\ question_data.type = question_types.tf
  /\ question_data.choices = << tTrue, tFALSE >>

\* the cleaned option set of the k-th select of the container being parsed
CurrentOptions(k) == Range(ExtractOptionsFromSelect(CurrentSelects[k]))

SharedOptionSet ==
  \A k \in 1..Len(CurrentSelects) : CurrentOptions(k) = CurrentOptions(1)

Ascending(seq) == \A i, j \in 1..Len(seq) : i < j => StrLess(seq[i], seq[j])

\* C10: after select extraction with N > 1 selects that share one option
\* set the record is Matching, its choices are that set, its blanks are not
\* empty and are Item 1..N when no item is found; a Cloze record comes only
\* from N > 1 selects that do not share one set, with blanks Blank 1..N and
\* the sorted union of the options as choices
C10_SharedSetIsMatching ==
  (pc = "clean" /\ handler = "select") =>
    /\ (Len(CurrentSelects) > 1 /\ SharedOptionSet) =>
         /\ question_data.type = question_types.matching
         /\ Range(question_data.choices) = CurrentOptions(1)
         /\ question_data.blanks # << >>
         /\ CurrentItems = << >> =>
              question_data.blanks = Numbered(kwItem, Len(CurrentSelects))
    /\ question_data.type = question_types.cloze =>
         /\ Len(CurrentSelects) > 1
         /\ ~SharedOptionSet
         /\ question_data.blanks = Numbered(kwBlankN, Len(CurrentSelects))
         /\ Range(question_data.choices)
              = UNION { CurrentOptions(k) : k \in 1..Len(CurrentSelects) }
         /\ Ascending(question_data.choices)

\* Scenario F with sixteen selects: no item, Item 1..16
C10_Witness ==
  /\ pc = "clean"
  /\ handler = "select"
  /\ Len(CurrentSelects) > 15
  /\ SharedOptionSet
  /\ CurrentItems = << >>
  /\ question_data.type = question_types.matching
  /\ question_data.blanks = Numbered(kwItem, Len(CurrentSelects))

\* a Cloze record over two selects with different option sets
C10_ClozeWitness ==
  /\ pc = "clean"
  /\ handler = "select"
  /\ question_data.type = question_types.cloze
  /\ Len(question_data.choices) = 2

\* the types of the records without choices
FreeTextTypes ==
  { question_types.essay, question_types.text, question_types.identification,
    "Unknown" }

\* the record differs from the one _parse_question starts from in the
\* question text it was given and in the type at most
OnlyTypeSet(data, number) ==
  data = [ BeforeDetect(number, ExtractQuestionText(page[number]))
             EXCEPT !.type = data.type ]

\* C11: a returned record of type Essay, Short Answer, Identification or
\* Unknown has no choices and no blanks; the text-input branch, the textarea
\* branch and the fallthrough without a control change the type at most and
\* leave number, question_text, choices, blanks and metadata as initialised
C11_FreeTextFrame ==
  /\ \A i \in 1..Len(questions) :
       questions[i].type \in FreeTextTypes =>
         /\ questions[i].choices = << >>
         /\ questions[i].blanks = << >>
         /\ OnlyTypeSet(questions[i], questions[i].number)
  /\ (pc \in { "clean", "append" } /\ handler \in { "text", "textarea", "none" }) =>
         /\ question_data.type \in FreeTextTypes
         /\ OnlyTypeSet(question_data, idx)

\* a returned Identification record next to the text input that gave it
C11_Witness ==
  /\ pc = "done"
  /\ \E i \in 1..Len(questions) :
       /\ questions[i].type = question_types.identification
       /\ HasKind(page[questions[i].number].rows, "text")
       /\ questions[i].choices = << >>
       /\ questions[i].blanks = << >>

====
